---- MODULE Spec2Model ----
(***************************************************************************)
(* Model of the DFI Labs onboarding backend: the screening handler and its *)
(* check providers (backend/screening/index.ts), the decide handler        *)
(* (backend/decide/index.ts) and the submit handler                        *)
(* (backend/submit/index.ts), together with the S3 objects they read and   *)
(* write and the e-mails they send.                                        *)
(*                                                                         *)
(* JavaScript strings the code inspects (names, list texts, TIN, e-mail    *)
(* address) are sequences of one-character strings.  The empty sequence    *)
(* stands for both the empty string and an absent (undefined) field: the   *)
(* code tests all of them with `!x` / `x || ''` only.                      *)
(***************************************************************************)
EXTENDS Integers, Sequences, FiniteSets, TLC

VARIABLES
    now,          \* Date.now(), in milliseconds
    submissions,  \* S3 objects submissions/<id>/submission.json
    screening,    \* S3 objects screening/<caseId>/results.json
    pdfs,         \* S3 objects screening/<caseId>/complete-report.pdf
    decisions,    \* S3 objects decisions/<caseId>/<action>-<ms>.json
    inv,          \* the handler invocations in flight, one per slot; each one
                  \* records the e-mails SES accepted from it (sent)
    putLog        \* per case: number of successful decision PutObject calls

vars == <<now, submissions, screening, pdfs, decisions, inv, putLog>>

-----------------------------------------------------------------------------
(* Bounds of the model *)

MaxTime == 1
MaxDecides == 2

\* the invocations that can be in flight at the same time
Slots == {1, 2}

-----------------------------------------------------------------------------
(* Strings *)

LowerChar(c) ==
    IF c = "A" THEN "a" ELSE IF c = "B" THEN "b" ELSE c

\* String.prototype.toLowerCase
toLowerCase(s) == [i \in 1..Len(s) |-> LowerChar(s[i])]

\* String.prototype.includes
includes(text, pat) ==
    \E i \in 1..(Len(text) - Len(pat) + 1) : SubSeq(text, i, i + Len(pat) - 1) = pat

\* index of the first occurrence of character c in s, 0 when there is none
RECURSIVE indexOfFrom(_, _, _)
indexOfFrom(s, c, i) ==
    IF i > Len(s) THEN 0
    ELSE IF s[i] = c THEN i
    ELSE indexOfFrom(s, c, i + 1)

-----------------------------------------------------------------------------
(* Outcomes of an awaited call.  A provider returns one ScreeningResult     *)
(* (Ret), rejects (Throw), or stays pending because a fetch it awaits never *)
(* settles (Pending).  `failed` records whether a fetch the call awaited    *)
(* rejected or returned a body that could not be parsed.                    *)

Ret(check, status, reason, failed) ==
    [out |-> "result", failed |-> failed,
     r |-> [check |-> check, status |-> status, reason |-> reason]]

Throw == [out |-> "throw"]
Pending == [out |-> "pending"]

\* What a fetch of a text resource can produce: a body, a rejection, or
\* nothing at all (the promise never settles; the code sets no timeout).
TextBodies == { <<"x", "A", "B", "y">>, <<"x">> }
TextResponses ==
    { [kind |-> "text", text |-> t] : t \in TextBodies }
        \cup { [kind |-> "error"], [kind |-> "pending"] }

\* What a fetch of a JSON resource can produce.  `answers` is the length of
\* data.Answer (0 also covers a body without an Answer field); "malformed"
\* is a body on which response.json() rejects.
JsonResponses ==
    { [kind |-> "json", answers |-> n] : n \in {0, 1} }
        \cup { [kind |-> "malformed"], [kind |-> "error"], [kind |-> "pending"] }

-----------------------------------------------------------------------------
(* Check providers *)

\* variant of checkSanctions with one try block around both lookups: a failed
\* UN lookup ends the check
checkSanctions_oneTry(name, un, eu) ==
    IF un.kind = "pending" THEN Pending
    ELSE IF un.kind = "error"
    THEN Ret("Sanctions Screening", "GREEN", "No matches found in UN/EU sanctions lists", TRUE)
    ELSE IF includes(toLowerCase(un.text), toLowerCase(name))
    THEN Ret("UN Sanctions", "RED", "Match found in UN sanctions list", FALSE)
    ELSE IF eu.kind = "pending" THEN Pending
    ELSE IF eu.kind = "text" /\ includes(toLowerCase(eu.text), toLowerCase(name))
    THEN Ret("EU Sanctions", "RED", "Match found in EU sanctions list", FALSE)
    ELSE Ret("Sanctions Screening", "GREEN", "No matches found in UN/EU sanctions lists",
             eu.kind = "error")

checkSanctions(name, un, eu) ==
    IF un.kind = "pending" THEN Pending
    ELSE IF un.kind = "text" /\ includes(toLowerCase(un.text), toLowerCase(name))
    THEN Ret("UN Sanctions", "RED", "Match found in UN sanctions list", FALSE)
    ELSE IF eu.kind = "pending" THEN Pending
    ELSE IF eu.kind = "text" /\ includes(toLowerCase(eu.text), toLowerCase(name))
    THEN Ret("EU Sanctions", "RED", "Match found in EU sanctions list", un.kind = "error")
    ELSE Ret("Sanctions Screening", "GREEN", "No matches found in UN/EU sanctions lists",
             un.kind = "error" \/ eu.kind = "error")

\* variant of checkPEP without its try/catch: a failed fetch rejects the call
checkPEP_throwing(name, country, rne) ==
    IF country \in {"FR", "France"}
    THEN IF rne.kind = "pending" THEN Pending
         ELSE IF rne.kind = "json"
         THEN Ret("PEP Screening (France RNE)", "GREEN",
                  "No PEP matches found in French elected officials database", FALSE)
         ELSE Throw
    ELSE Ret("PEP Screening", "GREEN", "No PEP matches found in official databases", FALSE)

checkPEP(name, country, rne) ==
    IF country = "FR" \/ country = "France"
    THEN IF rne.kind = "pending" THEN Pending
         ELSE IF rne.kind = "json"
         THEN Ret("PEP Screening (France RNE)", "GREEN",
                  "No PEP matches found in French elected officials database", FALSE)
         ELSE Ret("PEP Screening", "GREEN", "No PEP matches found in official databases", TRUE)
    ELSE Ret("PEP Screening", "GREEN", "No PEP matches found in official databases", FALSE)

\* variant of checkEntityRegistry that accepts every number of the length of a
\* SIREN without looking it up
checkEntityRegistry_format(registrationNumber, country) ==
    IF country = "FR" \/ country = "France"
    THEN IF Len(registrationNumber) = 9
         THEN Ret("Entity Registry (INSEE SIRENE)", "GREEN",
                  "Entity verified in French business registry", FALSE)
         ELSE Ret("Entity Registry (INSEE SIRENE)", "AMBER",
                  "Entity registry check requires manual verification", FALSE)
    ELSE Ret("Entity Registry", "AMBER",
             "Entity registry check not available for this country", FALSE)

checkEntityRegistry(registrationNumber, country) ==
    IF country = "FR" \/ country = "France"
    THEN IF registrationNumber = <<"9", "3", "3", "8", "1", "9", "9", "6", "3">>
         THEN Ret("Entity Registry (INSEE SIRENE)", "GREEN",
                  "Entity verified in French business registry - STONEVAL (SIREN: 933819963) is active", FALSE)
         ELSE Ret("Entity Registry (INSEE SIRENE)", "AMBER",
                  "Entity registry check requires manual verification", FALSE)
    ELSE Ret("Entity Registry", "AMBER",
             "Entity registry check not available for this country", FALSE)

\* variant of checkTaxID that asks for more than five characters
checkTaxID_sixChars(tin, country) ==
    IF tin = <<>> \/ Len(tin) <= 5
    THEN Ret("Tax ID Validation", "RED", "Invalid TIN format", FALSE)
    ELSE Ret("Tax ID Validation", "GREEN", "TIN format appears valid", FALSE)

checkTaxID(tin, country) ==
    IF tin = <<>> \/ Len(tin) < 5
    THEN Ret("Tax ID Validation", "RED", "Invalid TIN format", FALSE)
    ELSE Ret("Tax ID Validation", "GREEN", "TIN format appears valid", FALSE)

\* variant of checkEmailDomain that looks the domain up before it tests the
\* format of the address
checkEmailDomain_lookupFirst(email, mx) ==
    IF mx.kind = "pending" THEN Pending
    ELSE IF email = <<>> \/ ~includes(email, <<"@">>)
    THEN Ret("Email Domain", "RED", "Invalid email format", mx.kind # "json")
    ELSE IF mx.kind = "json" /\ mx.answers > 0
    THEN Ret("Email Domain", "GREEN", "Domain has valid MX record", FALSE)
    ELSE Ret("Email Domain", "AMBER", "Could not verify domain MX record", mx.kind # "json")

checkEmailDomain(email, mx) ==
    IF email = <<>> \/ ~includes(email, <<"@">>)
    THEN Ret("Email Domain", "RED", "Invalid email format", FALSE)
    ELSE IF mx.kind = "pending" THEN Pending
    ELSE IF mx.kind = "json" /\ mx.answers > 0
    THEN Ret("Email Domain", "GREEN", "Domain has valid MX record", FALSE)
    ELSE Ret("Email Domain", "AMBER", "Could not verify domain MX record", mx.kind # "json")

checkAdverseMedia(name, country) ==
    Ret("Adverse Media", "GREEN", "No adverse media found in public sources", FALSE)

-----------------------------------------------------------------------------
(* UBO parser *)

\* String.prototype.split on a one-character separator
RECURSIVE splitFrom(_, _, _, _)
splitFrom(s, c, i, cur) ==
    IF i > Len(s) THEN <<cur>>
    ELSE IF s[i] = c THEN <<cur>> \o splitFrom(s, c, i + 1, <<>>)
    ELSE splitFrom(s, c, i + 1, Append(cur, s[i]))

split(s, c) == splitFrom(s, c, 1, <<>>)

IsSpace(c) == c = " " \/ c = "\n"

RECURSIVE trimStart(_)
trimStart(s) ==
    IF s # <<>> /\ IsSpace(Head(s)) THEN trimStart(Tail(s)) ELSE s

RECURSIVE trimEnd(_)
trimEnd(s) ==
    IF s # <<>> /\ IsSpace(s[Len(s)]) THEN trimEnd(SubSeq(s, 1, Len(s) - 1)) ELSE s

\* String.prototype.trim
trim(s) == trimEnd(trimStart(s))

\* String.prototype.replace(c, ''): removes the first occurrence of c only
replaceFirst(s, c) ==
    LET i == indexOfFrom(s, c, 1)
    IN  IF i = 0 THEN s ELSE SubSeq(s, 1, i - 1) \o SubSeq(s, i + 1, Len(s))

DigitValue(c) ==
    CASE c = "0" -> 0 [] c = "1" -> 1 [] c = "2" -> 2 [] c = "3" -> 3 [] c = "4" -> 4
      [] c = "5" -> 5 [] c = "6" -> 6 [] c = "7" -> 7 [] c = "8" -> 8 [] c = "9" -> 9
      [] OTHER -> -1

\* value of the longest prefix of decimal digits of s, starting from acc
RECURSIVE digitsValue(_, _)
digitsValue(s, acc) ==
    IF s = <<>> \/ DigitValue(Head(s)) < 0 THEN acc
    ELSE digitsValue(Tail(s), 10 * acc + DigitValue(Head(s)))

\* parseFloat on the texts of the model (optional minus sign, then decimal
\* digits, then anything): the number read from the longest numeric prefix,
\* NaN when there is none.
parseFloat(s) ==
    LET t == trimStart(s)
        neg == t # <<>> /\ Head(t) = "-"
        d == IF neg THEN Tail(t) ELSE t
    IN  IF d = <<>> \/ DigitValue(Head(d)) < 0
        THEN [nan |-> TRUE, val |-> 0]
        ELSE [nan |-> FALSE, val |-> IF neg THEN 0 - digitsValue(d, 0) ELSE digitsValue(d, 0)]

\* the entry parseUBOList pushes for one line, <<>> when the line is dropped
parseUBOLine(line) ==
    LET raw == split(line, "|")
        parts == [i \in 1..Len(raw) |-> trim(raw[i])]
    IN  IF Len(parts) >= 3
        THEN LET name == parts[1]
                 dob == parts[2]
                 percentage == parseFloat(trim(replaceFirst(parts[3], "%")))
             IN  IF name # <<>> /\ dob # <<>> /\ ~percentage.nan
                 THEN << [name |-> name, dateOfBirth |-> dob, percentage |-> percentage.val] >>
                 ELSE <<>>
        ELSE <<>>

RECURSIVE parseUBOLines(_)
parseUBOLines(lines) ==
    IF lines = <<>> THEN <<>>
    ELSE (IF trim(Head(lines)) # <<>> THEN parseUBOLine(Head(lines)) ELSE <<>>)
            \o parseUBOLines(Tail(lines))

parseUBOList(uboText) ==
    IF uboText = <<>> \/ trim(uboText) = <<>> THEN <<>>
    ELSE parseUBOLines(split(uboText, "\n"))

-----------------------------------------------------------------------------
(* UBO check *)

RECURSIVE sumPercentage(_)
sumPercentage(uboList) ==
    IF uboList = <<>> THEN 0
    ELSE Head(uboList).percentage + sumPercentage(Tail(uboList))

\* the loop over the UBOs: the sequence of {name, sanctionsStatus, pepStatus}
\* built so far, or Pending as soon as one of the awaited sub-checks is.
\* ups[i] holds what the three fetches made for UBO i produce.
RECURSIVE uboLoop(_, _, _, _)
uboLoop(uboList, country, ups, i) ==
    IF i > Len(uboList) THEN [out |-> "result", r |-> <<>>]
    ELSE LET sanctionsResult == checkSanctions(uboList[i].name, ups[i].un, ups[i].eu)
             pepResult == checkPEP(uboList[i].name, country, ups[i].rne)
         IN  IF sanctionsResult.out # "result" THEN sanctionsResult
             ELSE IF pepResult.out # "result" THEN pepResult
             ELSE LET rest == uboLoop(uboList, country, ups, i + 1)
                  IN  IF rest.out # "result" THEN rest
                      ELSE [out |-> "result",
                            r |-> << [name |-> uboList[i].name,
                                      sanctionsStatus |-> sanctionsResult.r.status,
                                      pepStatus |-> pepResult.r.status,
                                      failed |-> sanctionsResult.failed \/ pepResult.failed] >>
                                  \o rest.r]

checkUBOs(uboList, country, ups) ==
    IF uboList = <<>>
    THEN Ret("UBO Screening", "AMBER", "No UBO information provided", FALSE)
    ELSE LET totalPercentage == sumPercentage(uboList)
         IN  IF totalPercentage < 100
             THEN Ret("UBO Screening", "AMBER",
                      "UBO ownership totals " \o ToString(totalPercentage) \o "% (should be 100%)", FALSE)
             ELSE LET loop == uboLoop(uboList, country, ups, 1)
                  IN  IF loop.out # "result" THEN loop
                      ELSE LET uboResults == loop.r
                               hasRedUBO == \E k \in 1..Len(uboResults) :
                                   uboResults[k].sanctionsStatus = "RED" \/ uboResults[k].pepStatus = "RED"
                               hasAmberUBO == \E k \in 1..Len(uboResults) :
                                   uboResults[k].sanctionsStatus = "AMBER" \/ uboResults[k].pepStatus = "AMBER"
                           IN  Ret("UBO Screening",
                                   IF hasRedUBO THEN "RED" ELSE IF hasAmberUBO THEN "AMBER" ELSE "GREEN",
                                   IF hasRedUBO THEN "High-risk UBO detected"
                                   ELSE IF hasAmberUBO THEN "Some UBOs require additional verification"
                                   ELSE "All UBOs cleared",
                                   \E k \in 1..Len(uboResults) : uboResults[k].failed)

-----------------------------------------------------------------------------
(* Inputs *)

CaseIds == {"c1", "c2"}

NameAB == <<"a", "b">>
NameC == <<"c">>
Tin4 == <<"1", "2", "3", "4">>
Tin5 == <<"1", "2", "3", "4", "5">>
EmailOk == <<"j", "@", "x">>
EmailNoAt == <<"j", "x">>
Siren933 == <<"9", "3", "3", "8", "1", "9", "9", "6", "3">>
Siren123 == <<"1", "2", "3", "4", "5", "6", "7", "8", "9">>
Ubo60 == <<"c", "|", "d", "|", "6", "0">>
Ubo100 == <<"c", " ", "|", "d", "|", "5", "0", "%", "\n", "b", "a", "d", "\n",
            "a", "b", "|", "d", "|", " ", "5", "0">>
UboBad == <<"c", "|", "d", "|", "x">>
UboAB60 == <<"a", "b", "|", "d", "|", "6", "0">>
Ubo120 == <<"c", "|", "d", "|", "6", "0", "\n", "a", "b", "|", "d", "|", "6", "0">>
UboPrefix == <<"c", "|", "d", "|", "6", "x">>
UboBlank == <<" ", "\n", " ">>

BasePayload ==
    [caseId |-> "c1", fullLegalName |-> NameC, taxResidencyCountry |-> "FR",
     tin |-> Tin5, pepStatus |-> "no", pepDetails |-> FALSE, clientType |-> "individual",
     registrationNumber |-> <<>>, email |-> EmailOk, uboList |-> <<>>,
     proofOfAddress |-> TRUE, sourceOfFunds |-> TRUE]

\* request bodies of the screening endpoint
IndividualPayloads ==
    { [BasePayload EXCEPT !.fullLegalName = n, !.taxResidencyCountry = c, !.tin = t, !.email = e] :
        n \in {NameAB, NameC}, c \in {"FR", "DE"}, t \in {<<>>, Tin4, Tin5},
        e \in {<<>>, EmailNoAt, EmailOk} }

EntityPayloads ==
    { [BasePayload EXCEPT !.clientType = "entity", !.taxResidencyCountry = c,
                          !.registrationNumber = r, !.uboList = u] :
        c \in {"FR", "DE"}, r \in {<<>>, Siren933, Siren123},
        u \in {<<>>, Ubo60, Ubo100, UboBad, Ubo120, UboPrefix, UboBlank} }

DocumentPayloads ==
    { [BasePayload EXCEPT !.clientType = t, !.pepStatus = s, !.pepDetails = d,
                          !.proofOfAddress = a, !.sourceOfFunds = f] :
        t \in {"", "individual"}, s \in {"yes", "no"}, d \in BOOLEAN, a \in BOOLEAN, f \in BOOLEAN }

\* a body that holds the case id, fullLegalName, taxResidencyCountry, tin,
\* email and pepStatus only
ExamplePayload ==
    [BasePayload EXCEPT !.clientType = "", !.proofOfAddress = FALSE, !.sourceOfFunds = FALSE]

InvalidPayloads ==
    { [BasePayload EXCEPT !.caseId = ""], [BasePayload EXCEPT !.fullLegalName = <<>>] }

\* an entity whose checks give RED, AMBER and GREEN results
MixedPayloads ==
    { [BasePayload EXCEPT !.fullLegalName = NameAB, !.clientType = "entity",
                          !.registrationNumber = Siren123, !.uboList = Ubo60, !.tin = Tin4] }

ScreeningPayloads ==
    IndividualPayloads \cup EntityPayloads \cup DocumentPayloads \cup InvalidPayloads
        \cup MixedPayloads

\* the bodies used when screening runs next to the other handlers
EntityPayload ==
    [BasePayload EXCEPT !.clientType = "entity", !.registrationNumber = Siren123,
                        !.uboList = Ubo60]

SystemPayloads ==
    { [BasePayload EXCEPT !.caseId = c] : c \in CaseIds } \cup { EntityPayload }

-----------------------------------------------------------------------------
(* S3 objects and invocation slots *)

NoObject == [exists |-> FALSE]
Object(body) == [exists |-> TRUE, body |-> body]

Idle == [kind |-> "idle", pc |-> "idle"]

\* a new invocation takes the first free slot (the slots are interchangeable)
freeSlot(p) ==
    /\ inv[p].kind = "idle"
    /\ \A q \in Slots : q < p => inv[q].kind # "idle"

Init ==
    /\ now = 0
    /\ submissions = [c \in CaseIds |-> NoObject]
    /\ screening = [c \in CaseIds |-> NoObject]
    /\ pdfs = {}
    /\ decisions = {}
    /\ inv = [p \in Slots |-> Idle]
    /\ putLog = [c \in CaseIds |-> 0]

Tick ==
    /\ now < MaxTime
    /\ now' = now + 1
    /\ UNCHANGED <<submissions, screening, pdfs, decisions, inv, putLog>>

-----------------------------------------------------------------------------
(* Screening handler *)

hasStatus(results, status) == \E i \in 1..Len(results) : results[i].status = status

\* variant of the aggregation in which AMBER takes precedence over RED
overallStatusOf_amberFirst(results) ==
    IF hasStatus(results, "AMBER") THEN "AMBER"
    ELSE IF hasStatus(results, "RED") THEN "RED" ELSE "GREEN"

overallStatusOf(results) ==
    LET hasRed == hasStatus(results, "RED")
        hasAmber == hasStatus(results, "AMBER")
    IN  IF hasRed THEN "RED" ELSE IF hasAmber THEN "AMBER" ELSE "GREEN"

missingInfoOf(data) ==
    (IF ~data.proofOfAddress THEN <<"Proof of address document">> ELSE <<>>)
        \o (IF ~data.sourceOfFunds THEN <<"Source of funds document">> ELSE <<>>)
        \o (IF data.pepStatus = "yes" /\ ~data.pepDetails
            THEN <<"PEP role and country details">> ELSE <<>>)

\* variant of the request-for-information list with an entry for every
\* result that is not GREEN
RECURSIVE rfisOf_notGreen(_)
rfisOf_notGreen(results) ==
    IF results = <<>> THEN <<>>
    ELSE (IF Head(results).status # "GREEN"
          THEN << Head(results).check \o ": " \o Head(results).reason >>
          ELSE <<>>) \o rfisOf_notGreen(Tail(results))

RECURSIVE rfisOf(_)
rfisOf(results) ==
    IF results = <<>> THEN <<>>
    ELSE (IF Head(results).status = "AMBER"
          THEN << Head(results).check \o ": " \o Head(results).reason >>
          ELSE <<>>) \o rfisOf(Tail(results))

\* variant of the aggregation in which missing information is also requested
\* from the applicant
summaryOf_missingRequested(data, results, documents, parsedUBOs) ==
    [caseId |-> data.caseId,
     clientName |-> data.fullLegalName,
     clientType |-> IF data.clientType = "" THEN "individual" ELSE data.clientType,
     overallStatus |-> overallStatusOf(results),
     results |-> results,
     missingInfo |-> missingInfoOf(data),
     rfis |-> rfisOf(results) \o missingInfoOf(data),
     documents |-> documents,
     uboList |-> parsedUBOs]

\* variant of the aggregation in which a case without listed documents is
\* reported as missing information
summaryOf_documents(data, results, documents, parsedUBOs) ==
    [caseId |-> data.caseId,
     clientName |-> data.fullLegalName,
     clientType |-> IF data.clientType = "" THEN "individual" ELSE data.clientType,
     overallStatus |-> overallStatusOf(results),
     results |-> results,
     missingInfo |-> missingInfoOf(data)
                        \o (IF documents = <<>> THEN <<"Identity document">> ELSE <<>>),
     rfis |-> rfisOf(results),
     documents |-> documents,
     uboList |-> parsedUBOs]

summaryOf(data, results, documents, parsedUBOs) ==
    [caseId |-> data.caseId,
     clientName |-> data.fullLegalName,
     clientType |-> IF data.clientType = "" THEN "individual" ELSE data.clientType,
     overallStatus |-> overallStatusOf(results),
     results |-> results,
     missingInfo |-> missingInfoOf(data),
     rfis |-> rfisOf(results),
     documents |-> documents,
     uboList |-> parsedUBOs]

\* the check that follows the PEP check, and the one that follows the registry check
afterPEP(data, parsedUBOs) ==
    IF data.clientType = "entity" /\ data.registrationNumber # <<>> THEN "registry"
    ELSE IF data.clientType = "entity" /\ Len(parsedUBOs) > 0 THEN "ubo"
    ELSE "taxid"

afterRegistry(data, parsedUBOs) ==
    IF data.clientType = "entity" /\ Len(parsedUBOs) > 0 THEN "ubo" ELSE "taxid"

Screening500 == [statusCode |-> 500, error |-> "Screening failed"]

\* variant of pushResult that gives up a check that does not settle and goes
\* on without its result
pushResult_timeout(p, outcome, next) ==
    inv' = [inv EXCEPT ![p] =
        IF outcome.out = "result"
        THEN [@ EXCEPT !.results = Append(@, outcome.r),
                       !.upstreamFailed = Append(@, outcome.failed), !.pc = next]
        ELSE IF outcome.out = "throw"
        THEN [@ EXCEPT !.pc = "done", !.resp = Screening500]
        ELSE [@ EXCEPT !.pc = next]]

\* results.push(await check(...)): the result is appended and the handler goes on;
\* a rejection reaches the handler's catch (500); a check that never settles
\* leaves the handler awaiting it.
pushResult(p, outcome, next) ==
    inv' = [inv EXCEPT ![p] =
        IF outcome.out = "result"
        THEN [@ EXCEPT !.results = Append(@, outcome.r),
                       !.upstreamFailed = Append(@, outcome.failed), !.pc = next]
        ELSE IF outcome.out = "throw"
        THEN [@ EXCEPT !.pc = "done", !.resp = Screening500]
        ELSE [@ EXCEPT !.pc = "awaiting"]]

\* The external sources as an invocation finds them.  An invocation runs
\* either against sources that answer each fetch anew (AnyWorld) or against
\* sources whose answers stay what they are while it runs (a member of Worlds).
AnyWorld == [fixed |-> FALSE]

Worlds ==
    [fixed : {TRUE}, un : TextResponses, eu : TextResponses,
     rne : JsonResponses, mx : JsonResponses]

AllAnswers ==
    [un |-> TextResponses, eu |-> TextResponses, rne |-> JsonResponses, mx |-> JsonResponses]

\* what a fetch of the given source by invocation p can be answered
answers(p, source) ==
    IF inv[p].world.fixed THEN {inv[p].world[source]} ELSE AllAnswers[source]

\* parsedUBOs depends on the request alone: it is computed with the request,
\* although the code computes it after the documents have been listed
ScreeningStartIn(p, data, world) ==
    /\ freeSlot(p)
    /\ inv' = [inv EXCEPT ![p] =
          [kind |-> "screen", data |-> data, world |-> world, documents |-> <<>>,
           parsedUBOs |-> IF data.caseId = "" \/ data.fullLegalName = <<>>
                          THEN <<>> ELSE parseUBOList(data.uboList),
           results |-> <<>>, upstreamFailed |-> <<>>, summary |-> summaryOf(data, <<>>, <<>>, <<>>),
           completePDF |-> FALSE, stored |-> FALSE, sent |-> <<>>,
           pc |-> IF data.caseId = "" \/ data.fullLegalName = <<>> THEN "done" ELSE "getDocuments",
           resp |-> IF data.caseId = "" \/ data.fullLegalName = <<>>
                    THEN [statusCode |-> 400, error |-> "Missing required fields"]
                    ELSE [statusCode |-> 0]]]
    /\ UNCHANGED <<now, submissions, screening, pdfs, decisions, putLog>>

ScreeningStart(p, data) == ScreeningStartIn(p, data, AnyWorld)

ScreeningBegin(p) ==
    /\ \E data \in SystemPayloads : ScreeningStart(p, data)

getDocumentsForCase(caseId, ok) ==
    IF ok /\ submissions[caseId].exists THEN submissions[caseId].body.files ELSE <<>>

ScreeningGetDocuments(p) ==
    /\ inv[p].kind = "screen" /\ inv[p].pc = "getDocuments"
    /\ \E ok \in BOOLEAN :
          inv' = [inv EXCEPT ![p] =
              [@ EXCEPT !.documents = getDocumentsForCase(inv[p].data.caseId, ok),
                        !.pc = "sanctions"]]
    /\ UNCHANGED <<now, submissions, screening, pdfs, decisions, putLog>>

ScreeningSanctions(p) ==
    /\ inv[p].kind = "screen" /\ inv[p].pc = "sanctions"
    /\ \E un \in answers(p, "un"), eu \in answers(p, "eu") :
          pushResult(p, checkSanctions(inv[p].data.fullLegalName, un, eu), "pep")
    /\ UNCHANGED <<now, submissions, screening, pdfs, decisions, putLog>>

ScreeningPEP(p) ==
    /\ inv[p].kind = "screen" /\ inv[p].pc = "pep"
    /\ \E rne \in answers(p, "rne") :
          pushResult(p, checkPEP(inv[p].data.fullLegalName, inv[p].data.taxResidencyCountry, rne),
                     afterPEP(inv[p].data, inv[p].parsedUBOs))
    /\ UNCHANGED <<now, submissions, screening, pdfs, decisions, putLog>>

ScreeningEntityRegistry(p) ==
    /\ inv[p].kind = "screen" /\ inv[p].pc = "registry"
    /\ pushResult(p, checkEntityRegistry(inv[p].data.registrationNumber,
                                         inv[p].data.taxResidencyCountry),
                  afterRegistry(inv[p].data, inv[p].parsedUBOs))
    /\ UNCHANGED <<now, submissions, screening, pdfs, decisions, putLog>>

UboUpstreams(p) == [un : answers(p, "un"), eu : answers(p, "eu"), rne : answers(p, "rne")]

ScreeningUBOs(p) ==
    /\ inv[p].kind = "screen" /\ inv[p].pc = "ubo"
    /\ \E ups \in [1..Len(inv[p].parsedUBOs) -> UboUpstreams(p)] :
          pushResult(p, checkUBOs(inv[p].parsedUBOs, inv[p].data.taxResidencyCountry, ups), "taxid")
    /\ UNCHANGED <<now, submissions, screening, pdfs, decisions, putLog>>

ScreeningTaxID(p) ==
    /\ inv[p].kind = "screen" /\ inv[p].pc = "taxid"
    /\ pushResult(p, checkTaxID(inv[p].data.tin, inv[p].data.taxResidencyCountry), "email")
    /\ UNCHANGED <<now, submissions, screening, pdfs, decisions, putLog>>

ScreeningEmailDomain(p) ==
    /\ inv[p].kind = "screen" /\ inv[p].pc = "email"
    /\ \E mx \in answers(p, "mx") :
          pushResult(p, checkEmailDomain(inv[p].data.email, mx), "media")
    /\ UNCHANGED <<now, submissions, screening, pdfs, decisions, putLog>>

\* the last check, then the synchronous aggregation up to the PutObject call
ScreeningAdverseMedia(p) ==
    /\ inv[p].kind = "screen" /\ inv[p].pc = "media"
    /\ LET outcome == checkAdverseMedia(inv[p].data.fullLegalName, inv[p].data.taxResidencyCountry)
       IN  inv' = [inv EXCEPT ![p] =
              IF outcome.out = "result"
              THEN [@ EXCEPT !.results = Append(@, outcome.r),
                             !.upstreamFailed = Append(@, outcome.failed),
                             !.summary = summaryOf(inv[p].data, Append(inv[p].results, outcome.r),
                                                   inv[p].documents, inv[p].parsedUBOs),
                             !.pc = "putSummary"]
              ELSE IF outcome.out = "throw"
              THEN [@ EXCEPT !.pc = "done", !.resp = Screening500]
              ELSE [@ EXCEPT !.pc = "awaiting"]]
    /\ UNCHANGED <<now, submissions, screening, pdfs, decisions, putLog>>

\* variant of ScreeningPutSummary that updates the fields of a stored summary
\* one by one and leaves its results as they were
ScreeningPutSummary_merge(p) ==
    /\ inv[p].kind = "screen" /\ inv[p].pc = "putSummary"
    /\ \E ok \in BOOLEAN :
          IF ok
          THEN /\ screening' = [screening EXCEPT ![inv[p].data.caseId] =
                      IF @.exists
                      THEN Object([inv[p].summary EXCEPT !.results = screening[inv[p].data.caseId].body.results])
                      ELSE Object(inv[p].summary)]
               /\ inv' = [inv EXCEPT ![p] = [@ EXCEPT !.stored = TRUE, !.pc = "pdf"]]
          ELSE /\ inv' = [inv EXCEPT ![p] = [@ EXCEPT !.pc = "done", !.resp = Screening500]]
               /\ UNCHANGED screening
    /\ UNCHANGED <<now, submissions, pdfs, decisions, putLog>>

ScreeningPutSummary(p) ==
    /\ inv[p].kind = "screen" /\ inv[p].pc = "putSummary"
    /\ \E ok \in BOOLEAN :
          IF ok
          THEN /\ screening' = [screening EXCEPT ![inv[p].data.caseId] = Object(inv[p].summary)]
               /\ inv' = [inv EXCEPT ![p] = [@ EXCEPT !.stored = TRUE, !.pc = "pdf"]]
          ELSE /\ inv' = [inv EXCEPT ![p] = [@ EXCEPT !.pc = "done", !.resp = Screening500]]
               /\ UNCHANGED screening
    /\ UNCHANGED <<now, submissions, pdfs, decisions, putLog>>

\* createCompletePDFReport, then the PutObject of the PDF, in one try block
ScreeningPDF(p) ==
    /\ inv[p].kind = "screen" /\ inv[p].pc = "pdf"
    /\ \E generated \in BOOLEAN, putOk \in BOOLEAN :
          /\ inv' = [inv EXCEPT ![p] = [@ EXCEPT !.completePDF = generated, !.pc = "sendEmail"]]
          /\ pdfs' = IF generated /\ putOk THEN pdfs \cup {inv[p].data.caseId} ELSE pdfs
    /\ UNCHANGED <<now, submissions, screening, decisions, putLog>>

\* variant of ScreeningSendEmail without the try/catch around the send
ScreeningSendEmail_failing(p) ==
    /\ inv[p].kind = "screen" /\ inv[p].pc = "sendEmail"
    /\ \E ok \in BOOLEAN :
          inv' = [inv EXCEPT ![p] =
                [@ EXCEPT !.pc = "done",
                          !.sent = IF ok THEN Append(@, "admin") ELSE @,
                          !.resp = IF ok
                                   THEN [statusCode |-> 200,
                                         caseId |-> inv[p].data.caseId,
                                         overallStatus |-> inv[p].summary.overallStatus,
                                         resultsCount |-> Len(inv[p].results),
                                         documentsCount |-> Len(inv[p].documents),
                                         pdfGenerated |-> inv[p].completePDF]
                                   ELSE Screening500]]
    /\ UNCHANGED <<now, submissions, screening, pdfs, decisions, putLog>>

ScreeningSendEmail(p) ==
    /\ inv[p].kind = "screen" /\ inv[p].pc = "sendEmail"
    /\ \E ok \in BOOLEAN :
          inv' = [inv EXCEPT ![p] =
                [@ EXCEPT !.pc = "done",
                          !.sent = IF ok THEN Append(@, "admin") ELSE @,
                          !.resp = [statusCode |-> 200,
                                    caseId |-> inv[p].data.caseId,
                                    overallStatus |-> inv[p].summary.overallStatus,
                                    resultsCount |-> Len(inv[p].results),
                                    documentsCount |-> Len(inv[p].documents),
                                    pdfGenerated |-> inv[p].completePDF]]]
    /\ UNCHANGED <<now, submissions, screening, pdfs, decisions, putLog>>

\* the response is delivered and the slot is free again
Return(p) ==
    /\ inv[p].kind # "idle" /\ inv[p].pc = "done"
    /\ inv' = [inv EXCEPT ![p] = Idle]
    /\ UNCHANGED <<now, submissions, screening, pdfs, decisions, putLog>>

ScreeningStep(p) ==
    \/ ScreeningGetDocuments(p)
    \/ ScreeningSanctions(p)
    \/ ScreeningPEP(p)
    \/ ScreeningEntityRegistry(p)
    \/ ScreeningUBOs(p)
    \/ ScreeningTaxID(p)
    \/ ScreeningEmailDomain(p)
    \/ ScreeningAdverseMedia(p)
    \/ ScreeningPutSummary(p)
    \/ ScreeningPDF(p)
    \/ ScreeningSendEmail(p)

-----------------------------------------------------------------------------
(* Submit handler *)

\* request bodies of the submit endpoint.  fullLegalName stands for the eight
\* universal fields the handler requires, registrationNumber for the five
\* entity fields; filesIsArray is Array.isArray(files).
BaseBody ==
    [email |-> EmailOk, clientType |-> "individual", files |-> <<"passport">>,
     filesIsArray |-> TRUE,
     fullLegalName |-> NameC, nationality |-> "FR", registrationNumber |-> <<>>]

SubmitBodies ==
    { BaseBody,
      [BaseBody EXCEPT !.files = <<>>, !.clientType = "entity", !.nationality = "", !.registrationNumber = Siren933],
      [BaseBody EXCEPT !.email = <<>>],
      [BaseBody EXCEPT !.files = <<>>, !.filesIsArray = FALSE],
      [BaseBody EXCEPT !.fullLegalName = <<>>],
      [BaseBody EXCEPT !.nationality = ""],
      [BaseBody EXCEPT !.clientType = "entity"] }

\* the 400 message of the first validation the body fails, "" when it passes
submitValidation(data) ==
    IF data.email = <<>> \/ data.clientType = "" \/ ~data.filesIsArray THEN "Invalid payload"
    ELSE IF data.fullLegalName = <<>> THEN "Missing required universal KYC fields"
    ELSE IF data.clientType = "individual" /\ data.nationality = ""
    THEN "Missing nationality for individual client"
    ELSE IF data.clientType = "entity" /\ data.registrationNumber = <<>>
    THEN "Missing required entity KYC fields"
    ELSE ""

SubmitBegin(p) ==
    /\ freeSlot(p)
    /\ \E data \in SubmitBodies :
          inv' = [inv EXCEPT ![p] =
              [kind |-> "submit", data |-> data, id |-> "", sent |-> <<>>,
               pc |-> IF submitValidation(data) # "" THEN "done" ELSE "putSubmission",
               resp |-> IF submitValidation(data) # ""
                        THEN [statusCode |-> 400, error |-> submitValidation(data)]
                        ELSE [statusCode |-> 0]]]
    /\ UNCHANGED <<now, submissions, screening, pdfs, decisions, putLog>>

\* variant of randomUUID() that returns the same identifier every time
randomUUID_fixed == "c1"

\* randomUUID(): an identifier no stored submission has (which one is
\* immaterial, the identifiers being interchangeable)
randomUUID == CHOOSE id \in CaseIds : ~submissions[id].exists

SubmitPut(p) ==
    /\ inv[p].kind = "submit" /\ inv[p].pc = "putSubmission"
    /\ \E id \in {randomUUID}, ok \in BOOLEAN :
          /\ IF ok
             THEN /\ submissions' = [submissions EXCEPT ![id] =
                        Object([id |-> id, email |-> inv[p].data.email,
                                clientType |-> inv[p].data.clientType,
                                fullLegalName |-> inv[p].data.fullLegalName,
                                files |-> inv[p].data.files])]
                  /\ inv' = [inv EXCEPT ![p] = [@ EXCEPT !.id = id, !.pc = "sendEmail"]]
             ELSE /\ inv' = [inv EXCEPT ![p] =
                        [@ EXCEPT !.pc = "done",
                                  !.resp = [statusCode |-> 500, error |-> "Internal error"]]]
                  /\ UNCHANGED submissions
    /\ UNCHANGED <<now, screening, pdfs, decisions, putLog>>

SubmitSendEmail(p) ==
    /\ inv[p].kind = "submit" /\ inv[p].pc = "sendEmail"
    /\ \E ok \in BOOLEAN :
          inv' = [inv EXCEPT ![p] =
                [@ EXCEPT !.pc = "done",
                          !.sent = IF ok THEN Append(@, "admin") ELSE @,
                          !.resp = [statusCode |-> 200, id |-> inv[p].id, status |-> "submitted"]]]
    /\ UNCHANGED <<now, submissions, screening, pdfs, decisions, putLog>>

SubmitStep(p) == SubmitPut(p) \/ SubmitSendEmail(p)

-----------------------------------------------------------------------------
(* Decide handler *)

\* query string parameters; "" is an absent (or empty) parameter
CaseParams == {""} \cup CaseIds
ActionParams == {"", "approve", "request", "reject", "escalate"}
TokenParams == {"", "t1", "t2"}

\* the requests made: each action for the first case, one of them with either
\* token; one request for the other case; and each parameter absent in turn
DecideRequests ==
    { [caseId |-> "c1", action |-> a, token |-> "t1"] : a \in ActionParams \ {""} }
        \cup { [caseId |-> "c1", action |-> "approve", token |-> "t2"],
               [caseId |-> "c2", action |-> "approve", token |-> "t1"],
               [caseId |-> "", action |-> "approve", token |-> "t1"],
               [caseId |-> "c1", action |-> "", token |-> "t1"],
               [caseId |-> "c1", action |-> "approve", token |-> ""] }

\* the cases of the switch on action
DecisionActions == {"approve", "request", "reject"}

paramsMissing(caseId, action, token) == caseId = "" \/ action = "" \/ token = ""

Decide500 == [statusCode |-> 500, error |-> "Decision processing failed"]

\* PutObject: the object stored under the key is replaced
putObject(store, key, body) ==
    {o \in store : o.key # key} \cup {[key |-> key, body |-> body]}

RECURSIVE sumOver(_, _)
sumOver(f, S) ==
    IF S = {} THEN 0
    ELSE LET x == CHOOSE x \in S : TRUE IN f[x] + sumOver(f, S \ {x})

putLogTotal == sumOver(putLog, CaseIds)

\* decisions stored so far plus decide invocations still on their way
decidesCounted ==
    Cardinality({q \in Slots : inv[q].kind = "decide" /\ inv[q].pc # "done" /\ inv[q].wrote = 0})
        + putLogTotal

DecideStart(p, r) ==
    /\ freeSlot(p)
    /\ decidesCounted < MaxDecides
    /\  LET caseId == r.caseId
            action == r.action
            token == r.token
        IN  inv' = [inv EXCEPT ![p] =
              [kind |-> "decide", caseId |-> caseId, action |-> action, token |-> token,
               clientEmail |-> <<>>, clientName |-> <<>>, clientType |-> "",
               key |-> <<>>, timestamp |-> 0, wrote |-> 0, sent |-> <<>>,
               pc |-> IF paramsMissing(caseId, action, token) THEN "done" ELSE "getScreening",
               resp |-> IF paramsMissing(caseId, action, token)
                        THEN [statusCode |-> 400,
                              error |-> "Missing required parameters: caseId, action, token"]
                        ELSE [statusCode |-> 0]]]
    /\ UNCHANGED <<now, submissions, screening, pdfs, decisions, putLog>>

DecideBegin(p) == \E r \in DecideRequests : DecideStart(p, r)

\* GetObject screening/<caseId>/results.json; a failure is logged only
DecideGetScreening(p) ==
    /\ inv[p].kind = "decide" /\ inv[p].pc = "getScreening"
    /\ \E ok \in BOOLEAN :
          inv' = [inv EXCEPT ![p] =
              IF ok /\ screening[inv[p].caseId].exists
              THEN [@ EXCEPT !.clientName = screening[inv[p].caseId].body.clientName,
                             !.clientType = screening[inv[p].caseId].body.clientType,
                             !.pc = "getSubmission"]
              ELSE [@ EXCEPT !.pc = "getSubmission"]]
    /\ UNCHANGED <<now, submissions, screening, pdfs, decisions, putLog>>

\* variant of DecideGetSubmission without the `if (!clientEmail)` return
DecideGetSubmission_noCheck(p) ==
    /\ inv[p].kind = "decide" /\ inv[p].pc = "getSubmission"
    /\ \E ok \in BOOLEAN :
          LET found == ok /\ submissions[inv[p].caseId].exists
              clientEmail == IF found THEN submissions[inv[p].caseId].body.email ELSE <<>>
          IN  inv' = [inv EXCEPT ![p] =
                  [@ EXCEPT !.clientEmail = clientEmail,
                            !.timestamp = now,
                            !.key = <<inv[p].caseId, inv[p].action, now>>,
                            !.pc = "putDecision"]]
    /\ UNCHANGED <<now, submissions, screening, pdfs, decisions, putLog>>

\* GetObject submissions/<caseId>/submission.json, then the check of the e-mail
\* address and the construction of the decision record and of its key
DecideGetSubmission(p) ==
    /\ inv[p].kind = "decide" /\ inv[p].pc = "getSubmission"
    /\ \E ok \in BOOLEAN :
          LET found == ok /\ submissions[inv[p].caseId].exists
              submission == submissions[inv[p].caseId].body
              clientEmail == IF found THEN submission.email ELSE <<>>
          IN  inv' = [inv EXCEPT ![p] =
                  IF clientEmail = <<>>
                  THEN [@ EXCEPT !.pc = "done",
                                 !.resp = [statusCode |-> 400, error |-> "Client email not found"]]
                  ELSE [@ EXCEPT !.clientEmail = clientEmail,
                                 !.clientName = IF submission.fullLegalName # <<>>
                                                THEN submission.fullLegalName ELSE @,
                                 !.clientType = IF submission.clientType # ""
                                                THEN submission.clientType ELSE @,
                                 !.timestamp = now,
                                 !.key = <<inv[p].caseId, inv[p].action, now>>,
                                 !.pc = "putDecision"]]
    /\ UNCHANGED <<now, submissions, screening, pdfs, decisions, putLog>>

\* variant of DecidePut with the PutObject in a try/catch of its own: a
\* failed write is logged and the handler goes on to the e-mails
DecidePut_continuing(p) ==
    /\ inv[p].kind = "decide" /\ inv[p].pc = "putDecision"
    /\ \E ok \in BOOLEAN :
          IF ok
          THEN /\ decisions' = putObject(decisions, inv[p].key,
                                  [caseId |-> inv[p].caseId, action |-> inv[p].action,
                                   token |-> inv[p].token, timestamp |-> inv[p].timestamp])
               /\ putLog' = [putLog EXCEPT ![inv[p].caseId] = @ + 1]
               /\ inv' = [inv EXCEPT ![p] =
                     IF inv[p].action \in DecisionActions
                     THEN [@ EXCEPT !.wrote = @ + 1, !.pc = "emailClient"]
                     ELSE [@ EXCEPT !.wrote = @ + 1, !.pc = "done",
                                    !.resp = [statusCode |-> 400,
                                              error |-> "Invalid action. Must be approve, request, or reject"]]]
          ELSE /\ inv' = [inv EXCEPT ![p] = [@ EXCEPT !.pc = "emailClient"]]
               /\ UNCHANGED <<decisions, putLog>>
    /\ UNCHANGED <<now, submissions, screening, pdfs>>

\* PutObject decisions/<caseId>/<action>-<ms>.json, then the switch on action
DecidePut(p) ==
    /\ inv[p].kind = "decide" /\ inv[p].pc = "putDecision"
    /\ \E ok \in BOOLEAN :
          IF ok
          THEN /\ decisions' = putObject(decisions, inv[p].key,
                                  [caseId |-> inv[p].caseId, action |-> inv[p].action,
                                   token |-> inv[p].token, timestamp |-> inv[p].timestamp])
               /\ putLog' = [putLog EXCEPT ![inv[p].caseId] = @ + 1]
               /\ inv' = [inv EXCEPT ![p] =
                     IF inv[p].action \in DecisionActions
                     THEN [@ EXCEPT !.wrote = @ + 1, !.pc = "emailClient"]
                     ELSE [@ EXCEPT !.wrote = @ + 1, !.pc = "done",
                                    !.resp = [statusCode |-> 400,
                                              error |-> "Invalid action. Must be approve, request, or reject"]]]
          ELSE /\ inv' = [inv EXCEPT ![p] = [@ EXCEPT !.pc = "done", !.resp = Decide500]]
               /\ UNCHANGED <<decisions, putLog>>
    /\ UNCHANGED <<now, submissions, screening, pdfs>>

DecideEmailClient(p) ==
    /\ inv[p].kind = "decide" /\ inv[p].pc = "emailClient"
    /\ \E ok \in BOOLEAN :
          inv' = [inv EXCEPT ![p] =
                [@ EXCEPT !.sent = IF ok THEN Append(@, "client") ELSE @, !.pc = "emailAdmin"]]
    /\ UNCHANGED <<now, submissions, screening, pdfs, decisions, putLog>>

\* variant of DecideEmailAdmin without the try/catch around the send
DecideEmailAdmin_failing(p) ==
    /\ inv[p].kind = "decide" /\ inv[p].pc = "emailAdmin"
    /\ \E ok \in BOOLEAN :
          inv' = [inv EXCEPT ![p] =
                [@ EXCEPT !.sent = IF ok THEN Append(@, "admin") ELSE @,
                          !.pc = "done",
                          !.resp = IF ok
                                   THEN [statusCode |-> 200, success |-> TRUE,
                                         caseId |-> inv[p].caseId, action |-> inv[p].action,
                                         clientEmail |-> inv[p].clientEmail]
                                   ELSE Decide500]]
    /\ UNCHANGED <<now, submissions, screening, pdfs, decisions, putLog>>

DecideEmailAdmin(p) ==
    /\ inv[p].kind = "decide" /\ inv[p].pc = "emailAdmin"
    /\ \E ok \in BOOLEAN :
          inv' = [inv EXCEPT ![p] =
                [@ EXCEPT !.sent = IF ok THEN Append(@, "admin") ELSE @,
                          !.pc = "done",
                          !.resp = [statusCode |-> 200, success |-> TRUE, caseId |-> inv[p].caseId,
                                    action |-> inv[p].action, clientEmail |-> inv[p].clientEmail]]]
    /\ UNCHANGED <<now, submissions, screening, pdfs, decisions, putLog>>

DecideStep(p) ==
    \/ DecideGetScreening(p)
    \/ DecideGetSubmission(p)
    \/ DecidePut(p)
    \/ DecideEmailClient(p)
    \/ DecideEmailAdmin(p)

-----------------------------------------------------------------------------
(* Case status handler *)

\* the objects cases/<caseId>/status.json: no handler of the repository writes
\* under this key
statusObjects == [c \in CaseIds |-> NoObject]

\* the status getCaseStatus passes to buildCaseStatus; a rejected GetObject
\* (missing key or S3 failure) is answered 'Submitted'
getCaseStatus(caseId, ok) ==
    IF ok /\ statusObjects[caseId].exists THEN statusObjects[caseId].body.status
    ELSE "Submitted"

StatusIds == CaseIds \cup {""}

StatusBegin(p) ==
    /\ freeSlot(p)
    /\ \E caseId \in StatusIds :
          inv' = [inv EXCEPT ![p] =
              [kind |-> "status", caseId |-> caseId, status |-> "", sent |-> <<>>,
               pc |-> IF caseId = "" THEN "done" ELSE "getCaseStatus",
               resp |-> IF caseId = ""
                        THEN [statusCode |-> 400, error |-> "Case ID required"]
                        ELSE [statusCode |-> 0]]]
    /\ UNCHANGED <<now, submissions, screening, pdfs, decisions, putLog>>

StatusGetCaseStatus(p) ==
    /\ inv[p].kind = "status" /\ inv[p].pc = "getCaseStatus"
    /\ \E ok \in BOOLEAN :
          inv' = [inv EXCEPT ![p] =
              [@ EXCEPT !.status = getCaseStatus(inv[p].caseId, ok), !.pc = "getClientData"]]
    /\ UNCHANGED <<now, submissions, screening, pdfs, decisions, putLog>>

\* getClientData, then getUploadedFiles (which never rejects) and the response
StatusGetClientData(p) ==
    /\ inv[p].kind = "status" /\ inv[p].pc = "getClientData"
    /\ \E ok \in BOOLEAN :
          LET found == ok /\ submissions[inv[p].caseId].exists
              clientData == submissions[inv[p].caseId].body
          IN  inv' = [inv EXCEPT ![p] =
                  [@ EXCEPT !.pc = "done",
                            !.resp = IF found
                                     THEN [statusCode |-> 200, caseId |-> inv[p].caseId,
                                           name |-> clientData.fullLegalName,
                                           email |-> clientData.email,
                                           type |-> clientData.clientType,
                                           status |-> inv[p].status,
                                           canUpload |-> inv[p].status \in {"RequestInfo", "Submitted"}]
                                     ELSE [statusCode |-> 404, error |-> "Client data not found"]]]
    /\ UNCHANGED <<now, submissions, screening, pdfs, decisions, putLog>>

StatusStep(p) ==
    \/ StatusGetCaseStatus(p)
    \/ StatusGetClientData(p)

-----------------------------------------------------------------------------
(* The handlers running side by side *)

Next ==
    \/ Tick
    \/ \E p \in Slots :
          \/ SubmitBegin(p) \/ SubmitStep(p)
          \/ ScreeningBegin(p) \/ ScreeningStep(p)
          \/ DecideBegin(p) \/ DecideStep(p)
          \/ StatusBegin(p) \/ StatusStep(p)
          \/ Return(p)

Spec == Init /\ [][Next]_vars

(* One submission, then one screening invocation over the whole range of   *)
(* request bodies: no further screening starts once a summary is stored.   *)

noSubmission == \A c \in CaseIds : ~submissions[c].exists

SubmitOnce ==
    /\ noSubmission
    /\ SubmitBegin(1)

ScreeningBeginOnce ==
    /\ \A c \in CaseIds : ~screening[c].exists
    /\ \E data \in ScreeningPayloads : ScreeningStart(1, data)

ScreenNext ==
    \/ SubmitOnce
    \/ SubmitStep(1)
    \/ ScreeningBeginOnce
    \/ ScreeningStep(1)
    \/ Return(1)

ScreenSpec == Init /\ [][ScreenNext]_vars

(* One submission, and decide invocations that overlap *)

DecideNext ==
    \/ Tick
    \/ SubmitOnce
    \/ SubmitStep(1)
    \/ \E p \in Slots : DecideBegin(p) \/ DecideStep(p) \/ Return(p)

DecideSpec == Init /\ [][DecideNext]_vars

(* The life of the cases: submissions as long as an identifier is unused,  *)
(* screening, decide and status invocations, one invocation at a time,    *)
(* all within one millisecond.                                             *)

idAvailable == \E c \in CaseIds : ~submissions[c].exists

SubmitNew ==
    /\ idAvailable
    /\ SubmitBegin(1)

\* screening and decide requests for the first case, and a decide request
\* for the other one
CaseScreeningBegin == ScreeningStart(1, EntityPayload)

CaseDecideRequests ==
    { [caseId |-> "c1", action |-> a, token |-> "t1"] : a \in DecisionActions }
        \cup { [caseId |-> "c2", action |-> "approve", token |-> "t1"] }

CaseDecideBegin == \E r \in CaseDecideRequests : DecideStart(1, r)

CaseNext ==
    \/ SubmitNew
    \/ SubmitStep(1)
    \/ CaseScreeningBegin
    \/ ScreeningStep(1)
    \/ CaseDecideBegin
    \/ DecideStep(1)
    \/ StatusBegin(1)
    \/ StatusStep(1)
    \/ Return(1)

CaseSpec == Init /\ [][CaseNext]_vars

(* Screening invocations for one case and one request body that overlap *)

RerunBegin(p) == ScreeningStart(p, EntityPayload)

RerunNext == \E p \in Slots : RerunBegin(p) \/ ScreeningStep(p) \/ Return(p)

RerunSpec == Init /\ [][RerunNext]_vars

(* Screening invocations, one after the other, of one request body against *)
(* sources whose answers do not change, after a submission.  The response  *)
(* of a screening invocation is kept.                                      *)

SnapshotPayloads ==
    { [BasePayload EXCEPT !.fullLegalName = NameAB],
      [BasePayload EXCEPT !.clientType = "entity", !.registrationNumber = Siren123,
                          !.uboList = Ubo100],
      [BasePayload EXCEPT !.clientType = "entity", !.uboList = UboAB60],
      [BasePayload EXCEPT !.email = EmailNoAt],
      [BasePayload EXCEPT !.email = <<>>, !.tin = Tin4] }

\* sources that answer every fetch
SnapshotWorlds ==
    { w \in Worlds :
        /\ \A source \in {"un", "eu", "rne", "mx"} : w[source].kind # "pending"
        /\ w.rne.kind = "json" => w.rne.answers = 0 }

\* the first run takes any request body and any sources, a later run those
\* of the run before it
SnapshotBegin(p) ==
    /\ ~noSubmission
    /\ \A q \in Slots : inv[q].kind = "idle" \/ inv[q].pc = "done"
    /\ LET before == {q \in Slots : inv[q].kind = "screen"}
       IN  \E data \in IF before = {} THEN SnapshotPayloads ELSE {inv[q].data : q \in before},
              world \in IF before = {} THEN SnapshotWorlds ELSE {inv[q].world : q \in before} :
                ScreeningStartIn(p, data, world)

SubmitReturn == inv[1].kind = "submit" /\ Return(1)

SnapshotNext ==
    \/ SubmitOnce
    \/ SubmitStep(1)
    \/ SubmitReturn
    \/ \E p \in Slots : SnapshotBegin(p) \/ ScreeningStep(p)

SnapshotSpec == Init /\ [][SnapshotNext]_vars

(* Screening invocations for one case, one after the other, whose request  *)
(* bodies differ in the documents and PEP details they declare.            *)

VerdictPayloads ==
    { EntityPayload,
      [EntityPayload EXCEPT !.sourceOfFunds = FALSE],
      [EntityPayload EXCEPT !.pepStatus = "yes", !.proofOfAddress = FALSE],
      [EntityPayload EXCEPT !.tin = Tin4, !.pepStatus = "yes", !.pepDetails = TRUE] }

VerdictBegin == \E data \in VerdictPayloads : ScreeningStart(1, data)

VerdictNext ==
    \/ VerdictBegin
    \/ ScreeningStep(1)
    \/ Return(1)

VerdictSpec == Init /\ [][VerdictNext]_vars

(* Screening invocations of the cases of the system, one at a time.  The   *)
(* event loop resumes a handler whose awaited call has settled.           *)

FairScreenNext ==
    \/ SubmitOnce
    \/ SubmitStep(1)
    \/ ScreeningBegin(1)
    \/ ScreeningStep(1)
    \/ Return(1)

FairScreenSpec == Init /\ [][FairScreenNext]_vars /\ WF_vars(ScreeningStep(1))

-----------------------------------------------------------------------------
(* Properties of the screening handler *)

SevRank(status) == CASE status = "RED" -> 2 [] status = "AMBER" -> 1 [] OTHER -> 0

IsMaxSeverity(status, results) ==
    /\ \A i \in 1..Len(results) : SevRank(results[i].status) <= SevRank(status)
    /\ \/ \E i \in 1..Len(results) : results[i].status = status
       \/ status = "GREEN"

\* C1: the overallStatus of a stored screening summary, and of a 200 response,
\* is the most severe status among the results: RED if any result is RED,
\* otherwise AMBER if any is AMBER, otherwise GREEN.
C1_OverallIsMaxSeverity ==
    /\ \A c \in CaseIds :
          screening[c].exists =>
              IsMaxSeverity(screening[c].body.overallStatus, screening[c].body.results)
    /\ \A p \in Slots :
          inv[p].kind = "screen" /\ inv[p].pc = "done" /\ inv[p].resp.statusCode = 200 =>
              IsMaxSeverity(inv[p].resp.overallStatus, inv[p].results)

\* a stored summary that is RED although its first result is not, with AMBER
\* and GREEN results beside the RED one
C1_Witness ==
    \E c \in CaseIds :
        /\ screening[c].exists
        /\ screening[c].body.overallStatus = "RED"
        /\ screening[c].body.results[1].status # "RED"
        /\ hasStatus(screening[c].body.results, "AMBER")
        /\ hasStatus(screening[c].body.results, "GREEN")

\* C4: whenever a source a check consulted was unreachable, errored or
\* returned an unparsable body, the result of that check is AMBER.
C4_UpstreamFailureGivesAmber ==
    \A p \in Slots :
        inv[p].kind = "screen" =>
            \A i \in 1..Len(inv[p].results) :
                inv[p].upstreamFailed[i] => inv[p].results[i].status = "AMBER"

\* the checks the handler runs for a payload, in order
checksOf(data, parsedUBOs) ==
    <<"sanctions", "pep">>
        \o (IF data.clientType = "entity" /\ data.registrationNumber # <<>>
            THEN <<"registry">> ELSE <<>>)
        \o (IF data.clientType = "entity" /\ Len(parsedUBOs) > 0 THEN <<"ubo">> ELSE <<>>)
        \o <<"taxid", "email", "media">>

\* C5: every check the handler calls yields exactly one result and never
\* rejects, whatever its sources answer: before each check the handler holds
\* one result per check already run, after the last check one result per
\* applicable check, and a 500 is only produced after all checks have run.
C5_OneResultPerCheck ==
    \A p \in Slots :
        inv[p].kind = "screen" =>
            LET v == inv[p]
                cs == checksOf(v.data, v.parsedUBOs)
            IN  CASE v.pc = "getDocuments" -> v.results = <<>>
                  [] v.pc \in {"putSummary", "pdf", "sendEmail"} -> Len(v.results) = Len(cs)
                  [] v.pc = "done" ->
                        IF v.resp.statusCode = 400 THEN v.results = <<>>
                        ELSE Len(v.results) = Len(cs)
                  [] v.pc = "awaiting" -> TRUE
                  [] OTHER -> \E i \in 1..Len(cs) : cs[i] = v.pc /\ Len(v.results) = i - 1

\* a 200 response for an entity with all seven checks, where a source of an
\* early check failed and the later checks still ran
C5_Witness ==
    \E p \in Slots :
        /\ inv[p].kind = "screen" /\ inv[p].pc = "done" /\ inv[p].resp.statusCode = 200
        /\ Len(inv[p].results) = 7
        /\ inv[p].upstreamFailed[1] /\ inv[p].upstreamFailed[2]

\* C6: every screening invocation eventually returns a response.
C6_ScreeningTerminates == (inv[1].kind = "screen") ~> (inv[1].pc = "done")

-----------------------------------------------------------------------------
(* Properties of the decide handler *)

\* C2: a decide invocation whose action is not approve, request or reject
\* writes no decision record.
C2_InvalidActionNotPersisted ==
    \A p \in Slots :
        inv[p].kind = "decide" /\ inv[p].action \notin DecisionActions => inv[p].wrote = 0

\* C3: the store holds one decision record per successful write: no write
\* replaces the record of an earlier one.
C3_AppendOnly ==
    \A c \in CaseIds : Cardinality({o \in decisions : o.body.caseId = c}) = putLog[c]

\* C7: a decide invocation with a missing parameter, or whose client e-mail
\* could not be resolved, has written nothing and has sent no notification.
C7_FailedDecideHasNoEffect ==
    \A p \in Slots :
        inv[p].kind = "decide"
            /\ (paramsMissing(inv[p].caseId, inv[p].action, inv[p].token)
                    \/ (inv[p].pc \in {"putDecision", "emailClient", "emailAdmin", "done"}
                            /\ inv[p].clientEmail = <<>>))
        => inv[p].wrote = 0 /\ inv[p].sent = <<>>

\* a decide invocation for a case without submission has returned while the
\* store already holds a record of another invocation
C7_Witness ==
    \E p \in Slots :
        /\ inv[p].kind = "decide" /\ inv[p].pc = "done"
        /\ ~paramsMissing(inv[p].caseId, inv[p].action, inv[p].token)
        /\ inv[p].clientEmail = <<>>
        /\ inv[p].resp.statusCode = 400
        /\ decisions # {}

\* C8: a decide invocation with all parameters whose client e-mail could not
\* be resolved answers 404.
C8_UnresolvedIs404 ==
    \A p \in Slots :
        inv[p].kind = "decide" /\ inv[p].pc = "done"
            /\ ~paramsMissing(inv[p].caseId, inv[p].action, inv[p].token)
            /\ inv[p].clientEmail = <<>>
        => inv[p].resp.statusCode = 404

\* C9: once a decide invocation with a valid action has written its record,
\* the record stays in the store and the invocation answers 200 with caseId,
\* action and clientEmail, whether or not the two e-mails could be sent.
C9_DecideSucceedsDespiteEmailFailure ==
    \A p \in Slots :
        inv[p].kind = "decide" /\ inv[p].action \in DecisionActions /\ inv[p].wrote = 1 =>
            /\ \E o \in decisions :
                  /\ o.key = inv[p].key
                  /\ o.body.caseId = inv[p].caseId /\ o.body.action = inv[p].action
            /\ inv[p].pc \in {"emailClient", "emailAdmin", "done"}
            /\ inv[p].pc = "done" =>
                  /\ inv[p].resp.statusCode = 200
                  /\ inv[p].resp.caseId = inv[p].caseId
                  /\ inv[p].resp.action = inv[p].action
                  /\ inv[p].resp.clientEmail = inv[p].clientEmail
                  /\ inv[p].clientEmail # <<>>

\* a decide invocation has returned after both e-mails failed
C9_Witness ==
    \E p \in Slots :
        /\ inv[p].kind = "decide" /\ inv[p].pc = "done"
        /\ inv[p].action \in DecisionActions /\ inv[p].wrote = 1
        /\ inv[p].sent = <<>>

\* C10: no two decision records in the store carry the same token.
C10_TokenUsedOnce ==
    \A o1 \in decisions, o2 \in decisions : o1.body.token = o2.body.token => o1 = o2

-----------------------------------------------------------------------------
(* Properties of screening summaries and of the checks behind them *)

\* C13: the stored screening summary of a case changes only when an
\* invocation for that case completes its store write, and it is then, in
\* full, the summary of that invocation: the last write wins and no stored
\* summary mixes the fields of two invocations.
C13_LastWriteWins ==
    [][\A c \in CaseIds :
          screening'[c] # screening[c] =>
              \E p \in Slots :
                  /\ inv[p].kind = "screen" /\ inv[p].pc = "putSummary"
                  /\ inv[p].data.caseId = c
                  /\ inv'[p].stored
                  /\ screening'[c] = Object(inv[p].summary)]_vars

\* two invocations for one case have both written their summaries, which
\* differ, and the store holds the summary of one of them
C13_Witness ==
    \E p \in Slots, q \in Slots :
        /\ p # q
        /\ inv[p].kind = "screen" /\ inv[q].kind = "screen"
        /\ inv[p].stored /\ inv[q].stored
        /\ inv[p].data.caseId = inv[q].data.caseId
        /\ inv[p].summary # inv[q].summary
        /\ screening[inv[p].data.caseId] = Object(inv[q].summary)

isAmber(r) == r.status = "AMBER"

\* C16: the rfis of a stored summary are the AMBER results of the summary,
\* in their order, one entry each, written "<check>: <reason>"; RED and GREEN
\* results have no entry.
C16_RfisAreAmberResults ==
    \A c \in CaseIds :
        screening[c].exists =>
            LET amber == SelectSeq(screening[c].body.results, isAmber)
                rfis == screening[c].body.rfis
            IN  /\ Len(rfis) = Len(amber)
                /\ \A i \in 1..Len(amber) :
                      rfis[i] = amber[i].check \o ": " \o amber[i].reason

\* a stored summary whose first result is RED, with GREEN results and at
\* least two AMBER ones
C16_Witness ==
    \E c \in CaseIds :
        /\ screening[c].exists
        /\ screening[c].body.results[1].status = "RED"
        /\ hasStatus(screening[c].body.results, "GREEN")
        /\ Len(screening[c].body.rfis) >= 2

RegistryChecks == {"Entity Registry (INSEE SIRENE)", "Entity Registry"}

countOf(results, checks) == Cardinality({i \in 1..Len(results) : results[i].check \in checks})

\* C17: the stored summary of an entity applicant holds one entity-registry
\* result and one UBO-screening result, and when no UBO entry was parsed the
\* UBO-screening result is AMBER, "No UBO information provided".
C17_EntityChecks ==
    \A c \in CaseIds :
        screening[c].exists /\ screening[c].body.clientType = "entity" =>
            LET results == screening[c].body.results
            IN  /\ countOf(results, RegistryChecks) = 1
                /\ countOf(results, {"UBO Screening"}) = 1
                /\ screening[c].body.uboList = <<>> =>
                      \A i \in 1..Len(results) :
                          results[i].check = "UBO Screening" =>
                              /\ results[i].status = "AMBER"
                              /\ results[i].reason = "No UBO information provided"

\* the reason of the sum rule for a total
sumRuleReason(total) == "UBO ownership totals " \o ToString(total) \o "% (should be 100%)"

\* C18: for a non-empty parsed UBO list the UBO-screening result is the
\* AMBER of the sum rule, its reason giving the computed total, exactly when
\* the percentages do not sum to 100.
C18_SumRuleFlagsEveryDeviation ==
    \A c \in CaseIds :
        screening[c].exists /\ screening[c].body.uboList # <<>> =>
            LET results == screening[c].body.results
                total == sumPercentage(screening[c].body.uboList)
            IN  \A i \in 1..Len(results) :
                    results[i].check = "UBO Screening" =>
                        (total # 100 <=>
                            results[i].status = "AMBER" /\ results[i].reason = sumRuleReason(total))

\* the statuses of the sanctions and PEP sub-checks of the UBOs of an
\* invocation that runs against fixed sources
uboSubStatuses(p) ==
    { checkSanctions(inv[p].parsedUBOs[i].name, inv[p].world.un, inv[p].world.eu).r.status :
        i \in 1..Len(inv[p].parsedUBOs) }
    \cup { checkPEP(inv[p].parsedUBOs[i].name, inv[p].data.taxResidencyCountry,
                    inv[p].world.rne).r.status : i \in 1..Len(inv[p].parsedUBOs) }

\* C19: for a non-empty parsed UBO list the UBO-screening result is RED when
\* a sub-check of a listed UBO is RED, whatever the ownership total, AMBER
\* when none is RED and one is AMBER, and GREEN only when all are GREEN.
C19_UboStatusFromSubChecks ==
    \A p \in Slots :
        inv[p].kind = "screen" /\ inv[p].world.fixed /\ inv[p].parsedUBOs # <<>> =>
            \A i \in 1..Len(inv[p].results) :
                inv[p].results[i].check = "UBO Screening" =>
                    LET status == inv[p].results[i].status
                        sub == uboSubStatuses(p)
                    IN  /\ "RED" \in sub => status = "RED"
                        /\ "RED" \notin sub /\ "AMBER" \in sub => status = "AMBER"
                        /\ status = "GREEN" => sub = {"GREEN"}

\* the list could be read and contains the name, whatever the case of letters
listMatches(response, name) ==
    response.kind = "text" /\ includes(toLowerCase(response.text), toLowerCase(name))

\* C20: the sanctions result is RED exactly when a list that could be read,
\* UN or EU, contains the applicant name as a case-insensitive substring, and
\* GREEN otherwise: a failed UN lookup does not hide a match in the EU list,
\* and two failed lookups give GREEN.
C20_SanctionsRedIffMatch ==
    \A p \in Slots :
        inv[p].kind = "screen" /\ inv[p].world.fixed /\ inv[p].results # <<>> =>
            LET match == \/ listMatches(inv[p].world.un, inv[p].data.fullLegalName)
                         \/ listMatches(inv[p].world.eu, inv[p].data.fullLegalName)
            IN  inv[p].results[1].status = IF match THEN "RED" ELSE "GREEN"

\* the UN lookup failed and the match in the EU list gave RED
C20_Witness ==
    \E p \in Slots :
        /\ inv[p].kind = "screen" /\ inv[p].world.fixed /\ inv[p].results # <<>>
        /\ inv[p].world.un.kind = "error"
        /\ listMatches(inv[p].world.eu, inv[p].data.fullLegalName)
        /\ inv[p].results[1].status = "RED"
        /\ inv[p].results[1].check = "EU Sanctions"

\* the invocation has aggregated its results into a summary
aggregated(p) ==
    /\ inv[p].kind = "screen"
    /\ \/ inv[p].pc \in {"putSummary", "pdf", "sendEmail"}
       \/ inv[p].pc = "done" /\ inv[p].resp.statusCode # 400

\* C14: two screening invocations of the same request body that found the
\* external sources answering the same produce summaries equal in caseId,
\* clientName, clientType, overallStatus, results (check, status, reason),
\* missingInfo and rfis.
C14_ScreeningIdempotent ==
    \A p \in Slots, q \in Slots :
        aggregated(p) /\ aggregated(q)
            /\ inv[p].data = inv[q].data
            /\ inv[p].world.fixed /\ inv[p].world = inv[q].world
        => /\ inv[p].summary.caseId = inv[q].summary.caseId
           /\ inv[p].summary.clientName = inv[q].summary.clientName
           /\ inv[p].summary.clientType = inv[q].summary.clientType
           /\ inv[p].summary.overallStatus = inv[q].summary.overallStatus
           /\ inv[p].summary.results = inv[q].summary.results
           /\ inv[p].summary.missingInfo = inv[q].summary.missingInfo
           /\ inv[p].summary.rfis = inv[q].summary.rfis

\* two runs of one request body against the same sources have both stored a
\* summary with a request for information; only one of them could list the
\* documents of the case
C14_Witness ==
    /\ aggregated(1) /\ aggregated(2)
    /\ inv[1].stored /\ inv[2].stored
    /\ inv[1].data = inv[2].data /\ inv[1].world = inv[2].world
    /\ inv[1].summary.rfis # <<>>
    /\ inv[1].summary.documents # inv[2].summary.documents

-----------------------------------------------------------------------------
(* Properties of the records of a case *)

decisionsOf(c) == {o \in decisions : o.body.caseId = c}

\* C11: the records of a case are created in the order submission,
\* screening summary, decision: a stored decision record of a case implies a
\* stored screening summary of it, and a stored screening summary implies a
\* stored submission.
C11_RecordsInOrder ==
    \A c \in CaseIds :
        /\ decisionsOf(c) # {} => screening[c].exists
        /\ screening[c].exists => submissions[c].exists

\* the status the query is to report after a decision with the given action
statusOfAction(action) ==
    CASE action = "approve" -> "Approved"
      [] action = "request" -> "RequestInfo"
      [] action = "reject" -> "Declined"
      [] OTHER -> ""

\* C12: a status query answered while a screening summary of the case is
\* stored does not report Submitted, and one answered while the decision
\* records of the case all carry one action reports the status of that action.
C12_StatusDerivedFromRecords ==
    \A p \in Slots :
        inv[p].kind = "status" /\ inv[p].pc = "done" /\ inv[p].resp.statusCode = 200 =>
            /\ screening[inv[p].caseId].exists => inv[p].resp.status # "Submitted"
            /\ \A a \in DecisionActions :
                  (decisionsOf(inv[p].caseId) # {}
                      /\ \A o \in decisionsOf(inv[p].caseId) : o.body.action = a)
                  => inv[p].resp.status = statusOfAction(a)

\* C15: a stored submission record is never changed or replaced, whatever
\* submit, screening, decide or status invocation takes a step.
C15_SubmissionImmutable ==
    [][\A c \in CaseIds : submissions[c].exists => submissions'[c] = submissions[c]]_vars

\* two submissions are stored, and the first case has since been screened,
\* decided and queried
C15_Witness ==
    /\ \A c \in CaseIds : submissions[c].exists
    /\ screening["c1"].exists
    /\ decisionsOf("c1") # {}
    /\ inv[1].kind = "status" /\ inv[1].pc = "done" /\ inv[1].resp.statusCode = 200

-----------------------------------------------------------------------------
(* Properties of the single checks *)

\* the registry result of an invocation, as a set (empty when the check has
\* not run)
registryResults(p) ==
    { inv[p].results[i] : i \in { j \in 1..Len(inv[p].results) :
                                      inv[p].results[j].check \in RegistryChecks } }

\* the one entity the French registry is known to hold as active
confirmedActive(registrationNumber, country) ==
    country \in {"FR", "France"} /\ registrationNumber = Siren933

isSirenFormat(s) == Len(s) = 9 /\ \A i \in 1..Len(s) : DigitValue(s[i]) >= 0

\* C22: the results of an entity applicant with French tax residency and a
\* registration number in SIREN format contain an Entity Registry result
\* whose status is GREEN.
C22_ValidSirenIsGreen ==
    \A p \in Slots :
        aggregated(p) /\ inv[p].data.clientType = "entity"
            /\ inv[p].data.taxResidencyCountry = "FR"
            /\ isSirenFormat(inv[p].data.registrationNumber)
        => \E r \in registryResults(p) : r.status = "GREEN"

\* the results of an invocation for the checks of the given names
resultsOf(p, checks) ==
    { inv[p].results[i] : i \in { j \in 1..Len(inv[p].results) :
                                      inv[p].results[j].check \in checks } }

\* C27: the tax-ID result is RED exactly when the tax identification number
\* is absent, empty or shorter than five characters, and GREEN for every
\* number of five or more characters; it is never AMBER.
C27_TaxIdRedIffShort ==
    \A p \in Slots :
        inv[p].kind = "screen" =>
            \A r \in resultsOf(p, {"Tax ID Validation"}) :
                r.status = IF Len(inv[p].data.tin) < 5 THEN "RED" ELSE "GREEN"

\* the number "12345", of five characters, has been answered GREEN
C27_Witness ==
    \E p \in Slots :
        /\ inv[p].kind = "screen"
        /\ inv[p].data.tin = Tin5
        /\ \E r \in resultsOf(p, {"Tax ID Validation"}) : r.status = "GREEN"

\* the address is absent or holds no '@'
malformedAddress(email) == \A i \in 1..Len(email) : email[i] # "@"

\* C28: the email-domain result is RED when the address is absent or has no
\* '@', GREEN when the mail-exchange lookup of its domain returns at least one
\* answer, and AMBER in every other case (no answer, a failed lookup); for a
\* malformed address no lookup is made, so none has failed.
C28_EmailDomainStatus ==
    \A p \in Slots :
        inv[p].kind = "screen" /\ inv[p].world.fixed =>
            \A i \in 1..Len(inv[p].results) :
                inv[p].results[i].check = "Email Domain" =>
                    LET mx == inv[p].world.mx
                        malformed == malformedAddress(inv[p].data.email)
                    IN  /\ inv[p].results[i].status =
                              IF malformed THEN "RED"
                              ELSE IF mx.kind = "json" /\ mx.answers >= 1 THEN "GREEN"
                              ELSE "AMBER"
                        /\ malformed => ~inv[p].upstreamFailed[i]

\* an address without '@' has been answered RED while the mail-exchange
\* lookup was failing
C28_Witness ==
    \E p \in Slots :
        /\ inv[p].kind = "screen" /\ inv[p].world.fixed
        /\ inv[p].data.email = EmailNoAt
        /\ inv[p].world.mx.kind = "error"
        /\ \E r \in resultsOf(p, {"Email Domain"}) : r.status = "RED"

-----------------------------------------------------------------------------
(* Properties of the aggregation *)

allGreen(results) == \A i \in 1..Len(results) : results[i].status = "GREEN"

\* C23: the screening of an individual whose request holds only the case id,
\* fullLegalName, taxResidencyCountry, the tin "12345", email and pepStatus
\* "no", all checks answering GREEN, gives a summary with overallStatus GREEN,
\* an empty missingInfo and an empty rfis.
C23_ExampleIsAllClear ==
    \A p \in Slots :
        aggregated(p) /\ inv[p].data = ExamplePayload /\ allGreen(inv[p].results) =>
            /\ inv[p].summary.overallStatus = "GREEN"
            /\ inv[p].summary.missingInfo = <<>>
            /\ inv[p].summary.rfis = <<>>

\* C24: two screening runs whose results are the same give the same
\* overallStatus and the same rfis, whatever proofOfAddress, sourceOfFunds,
\* pepStatus and pepDetails their requests hold.
C24_MissingInfoDoesNotAlterVerdict ==
    \A c \in CaseIds, p \in Slots :
        screening[c].exists /\ aggregated(p)
            /\ screening[c].body.results = inv[p].summary.results
        => /\ screening[c].body.overallStatus = inv[p].summary.overallStatus
           /\ screening[c].body.rfis = inv[p].summary.rfis

\* the stored summary of an earlier run and the summary of the present run
\* have the same results, one of them AMBER, and different missingInfo lists
C24_Witness ==
    \E c \in CaseIds, p \in Slots :
        /\ screening[c].exists /\ aggregated(p)
        /\ screening[c].body.results = inv[p].summary.results
        /\ screening[c].body.missingInfo # inv[p].summary.missingInfo
        /\ inv[p].summary.missingInfo # <<>>
        /\ inv[p].summary.rfis # <<>>

-----------------------------------------------------------------------------
(* Properties of the side effects of screening *)

\* C25: once a screening invocation has written its summary, the summary
\* stays in the store as written and the invocation answers 200 with its
\* caseId, overallStatus, resultsCount and documentsCount, whether or not the
\* PDF could be generated and stored and the e-mail could be sent.
C25_SideEffectFailuresSwallowed ==
    \A p \in Slots :
        inv[p].kind = "screen" /\ inv[p].stored =>
            /\ screening[inv[p].data.caseId] = Object(inv[p].summary)
            /\ inv[p].pc \in {"pdf", "sendEmail", "done"}
            /\ inv[p].pc = "done" =>
                  /\ inv[p].resp.statusCode = 200
                  /\ inv[p].resp.caseId = inv[p].data.caseId
                  /\ inv[p].resp.overallStatus = inv[p].summary.overallStatus
                  /\ inv[p].resp.resultsCount = Len(inv[p].summary.results)
                  /\ inv[p].resp.documentsCount = Len(inv[p].summary.documents)

\* a screening invocation has returned after the PDF could not be generated
\* (or stored) and the e-mail could not be sent
C25_Witness ==
    \E p \in Slots :
        /\ inv[p].kind = "screen" /\ inv[p].stored /\ inv[p].pc = "done"
        /\ inv[p].data.caseId \notin pdfs
        /\ inv[p].sent = <<>>
        /\ inv[p].summary.documents # <<>>

-----------------------------------------------------------------------------
(* Properties of the UBO parser *)

\* a decimal number: digits with at most one decimal point among them
isNumericText(s) ==
    /\ \E i \in 1..Len(s) : DigitValue(s[i]) >= 0
    /\ \A i \in 1..Len(s) : DigitValue(s[i]) >= 0 \/ s[i] = "."
    /\ Cardinality({i \in 1..Len(s) : s[i] = "."}) <= 1

\* the percentage field without its trailing % and the whitespace around it
percentageText(field) ==
    LET t == trim(field)
    IN  IF t # <<>> /\ t[Len(t)] = "%" THEN trim(SubSeq(t, 1, Len(t) - 1)) ELSE t

\* a line with at least three fields, a name, a date of birth and a numeric
\* percentage
wellFormedLine(line) ==
    LET fields == split(line, "|")
    IN  /\ Len(fields) >= 3
        /\ trim(fields[1]) # <<>>
        /\ trim(fields[2]) # <<>>
        /\ isNumericText(percentageText(fields[3]))

\* C26: the parsed UBO list of a screening invocation has one entry for
\* each well-formed line of the UBO text, in the order of the lines, with the
\* name and the date of birth of the line; every other line is dropped, and
\* an empty or blank text gives no entry.
C26_ParserKeepsWellFormedLines ==
    \A p \in Slots :
        inv[p].kind = "screen" /\ inv[p].resp.statusCode # 400 =>
            LET kept == SelectSeq(split(inv[p].data.uboList, "\n"), wellFormedLine)
                parsed == inv[p].parsedUBOs
            IN  /\ Len(parsed) = Len(kept)
                /\ \A i \in 1..Len(kept) :
                      /\ parsed[i].name = trim(split(kept[i], "|")[1])
                      /\ parsed[i].dateOfBirth = trim(split(kept[i], "|")[2])

-----------------------------------------------------------------------------
(* Properties of the order of persistence and notification *)

\* C29: a screening invocation has sent its e-mail only after it wrote its
\* summary, a decide invocation only after it wrote its decision record; an
\* invocation whose write failed answers 500 and has sent no e-mail.
C29_NotificationAfterPersistence ==
    \A p \in Slots :
        /\ inv[p].kind = "screen" =>
              /\ inv[p].sent # <<>> =>
                    inv[p].stored /\ screening[inv[p].data.caseId].exists
              /\ inv[p].pc = "done" /\ inv[p].resp.statusCode # 400 /\ ~inv[p].stored =>
                    inv[p].resp.statusCode = 500 /\ inv[p].sent = <<>>
        /\ inv[p].kind = "decide" =>
              /\ inv[p].sent # <<>> =>
                    inv[p].wrote = 1 /\ \E o \in decisions : o.key = inv[p].key
              /\ inv[p].pc = "done" /\ inv[p].key # <<>> /\ inv[p].wrote = 0 =>
                    inv[p].resp.statusCode = 500 /\ inv[p].sent = <<>>

\* the write of a decision record has failed for a case whose screening
\* summary is stored
C29_Witness ==
    \E p \in Slots :
        /\ inv[p].kind = "decide" /\ inv[p].pc = "done"
        /\ inv[p].key # <<>> /\ inv[p].wrote = 0
        /\ inv[p].resp.statusCode = 500
        /\ screening[inv[p].caseId].exists

\* the check a result comes from
kindOfCheck(check) ==
    CASE check \in {"UN Sanctions", "EU Sanctions", "Sanctions Screening"} -> "sanctions"
      [] check \in {"PEP Screening", "PEP Screening (France RNE)"} -> "pep"
      [] check \in RegistryChecks -> "registry"
      [] check = "UBO Screening" -> "ubo"
      [] check = "Tax ID Validation" -> "taxid"
      [] check = "Email Domain" -> "email"
      [] check = "Adverse Media" -> "media"
      [] OTHER -> "unknown"

kindsOf(results) == [i \in 1..Len(results) |-> kindOfCheck(results[i].check)]

\* C30: a summary is aggregated and stored only when every applicable check
\* has given its result: a stored summary holds one result of each of the
\* sanctions, PEP, tax-ID, email-domain and adverse-media checks (for an
\* individual these five and no other), and the summary an invocation wrote
\* holds the results of all its applicable checks, in their order.
C30_AggregationIsFullBarrier ==
    /\ \A c \in CaseIds :
          screening[c].exists =>
              LET kinds == kindsOf(screening[c].body.results)
              IN  /\ \A k \in {"sanctions", "pep", "taxid", "email", "media"} :
                        Cardinality({i \in 1..Len(kinds) : kinds[i] = k}) = 1
                  /\ screening[c].body.clientType = "individual" => Len(kinds) = 5
    /\ \A p \in Slots :
          inv[p].kind = "screen" /\ inv[p].stored =>
              kindsOf(inv[p].summary.results) = checksOf(inv[p].data, inv[p].parsedUBOs)

\* the stored summary of an individual whose email-domain check answered
\* AMBER holds the five results, the AMBER one among them
C30_Witness ==
    \E c \in CaseIds :
        /\ screening[c].exists
        /\ screening[c].body.clientType = "individual"
        /\ Len(screening[c].body.results) = 5
        /\ screening[c].body.results[4].status = "AMBER"

====
